---- MODULE Spec2Model ----
(***************************************************************************)
(* A model of the pathology transforms of                                  *)
(* sample-apps/pathology/lib/transforms.py.                                *)
(*                                                                         *)
(* Every transform is a synchronous call on a record.  A behaviour of a    *)
(* specification below is one call: Init draws the inputs, one action      *)
(* runs the transform (a recursive function takes one step per call        *)
(* level).  The variable op names the transform a behaviour exercises;     *)
(* variables of the other transforms stay at Idle.                         *)
(*                                                                         *)
(* A 2-D array is a record [h, w, px] with px a function on                *)
(* (0..h-1) \X (0..w-1), indexed <<row, column>> as numpy does.            *)
(***************************************************************************)
EXTENDS Integers, Sequences, FiniteSets

VARIABLES
    op,             \* the transform being called
    pc,             \* "call" while the call runs, "done" once it returned or raised
    raised,         \* the exception that left the call, "none" otherwise
    \* LoadImagePatchd
    padding,        \* self.padding
    tile_size,      \* d.get("tile_size", size): None or Some(<<t0, t1>>)
    image_np,       \* the loaded tile, before padding
    d_image,        \* d[key] as stored by __call__
    \* filter_green_channel, filter_grays, filter_remove_small_objects
    img_np,         \* the array the filter is called on
    green_thresh,   \* the threshold of the current call level
    min_size,       \* the min_size of the current call level (also self.min_size)
    overmask_thresh,
    avoid_overmask,
    tolerance,
    depth,          \* number of recursive calls made so far
    mask,           \* the mask the outermost call returns
    \* PostFilterLabeld, SplitLabelExd
    min_hole,       \* self.min_hole
    keys,           \* self.keys
    data,           \* the record passed to __call__
    result,         \* the value __call__ returns: None or Some(record)
    \* NuClickPostFilterLabelExd.gen_instance_map
    masks,
    bounding_boxes,
    canvas,         \* <<m, n>>
    flatten,
    pred_classes,
    instance_map

loadVars == <<padding, tile_size, image_np, d_image>>
filterVars == <<img_np, green_thresh, min_size, overmask_thresh, avoid_overmask,
                tolerance, depth, mask>>
recordVars == <<min_hole, keys, data, result>>
nuclickVars == <<masks, bounding_boxes, canvas, flatten, pred_classes, instance_map>>

vars == <<op, pc, raised, loadVars, filterVars, recordVars, nuclickVars>>

Idle == "idle"
\* An optional value is a sequence of length at most one: None is the empty
\* sequence, Some(v) holds v, and Value gives it back.
None == <<>>
Some(v) == <<v>>
Value(o) == o[1]

LoadIdle ==
    /\ padding = Idle /\ tile_size = Idle /\ image_np = Idle /\ d_image = Idle
FilterIdle ==
    /\ img_np = Idle /\ green_thresh = Idle /\ min_size = Idle /\ overmask_thresh = Idle
    /\ avoid_overmask = Idle /\ tolerance = Idle /\ depth = Idle /\ mask = Idle
RecordIdle ==
    /\ min_hole = Idle /\ keys = Idle /\ data = Idle /\ result = Idle
NuclickIdle ==
    /\ masks = Idle /\ bounding_boxes = Idle /\ canvas = Idle /\ flatten = Idle
    /\ pred_classes = Idle /\ instance_map = Idle

(***************************************************************************)
(* Arrays                                                                  *)
(***************************************************************************)
Pos(h, w) == (0 .. h - 1) \X (0 .. w - 1)

Arrays(h, w, values) == {[h |-> h, w |-> w, px |-> f] : f \in [Pos(h, w) -> values]}

(***************************************************************************)
(* LoadImagePatchd                                                         *)
(***************************************************************************)
MaxTile == 2        \* tiles have 1..MaxTile rows and columns

ZeroPixel == <<0, 0, 0>>
TilePixels == {ZeroPixel, <<7, 8, 9>>}

\* np.pad(img, [(0, d0), (0, d1), (0, 0)], mode="constant", constant_values=0):
\* a negative pad width raises ValueError.
np_pad(img, d0, d1) ==
    IF d0 < 0 \/ d1 < 0
    THEN [exc |-> "ValueError"]
    ELSE [exc |-> "none",
          val |-> [h |-> img.h + d0, w |-> img.w + d1,
                   px |-> [p \in Pos(img.h + d0, img.w + d1) |->
                             IF p[1] < img.h /\ p[2] < img.w THEN img.px[p] ELSE ZeroPixel]]]

\* s_diff = np.array(shape) - np.array(img.shape[:-1])
pad_to_shape(img, shape) == np_pad(img, shape[1] - img.h, shape[2] - img.w)

\* self.padding and tile_size and (shape[0] != tile_size[0] or shape[1] != tile_size[1])
NeedsPadding(pad, img, shape) ==
    pad /\ shape # None /\ (img.h # Value(shape)[1] \/ img.w # Value(shape)[2])

TileSizes == {None} \cup {Some(t) : t \in (1 .. MaxTile) \X (1 .. MaxTile)}

LoadInit ==
    /\ op = "LoadImagePatchd"
    /\ pc = "call"
    /\ raised = "none"
    /\ padding \in BOOLEAN
    /\ tile_size \in TileSizes
    /\ image_np \in UNION {Arrays(h, w, TilePixels) : h \in 1 .. MaxTile, w \in 1 .. MaxTile}
    /\ d_image = "unset"
    /\ FilterIdle /\ RecordIdle /\ NuclickIdle

\* The tail of LoadImagePatchd.__call__: pad when the shapes differ, store.
LoadImagePatchd_call ==
    /\ op = "LoadImagePatchd"
    /\ pc = "call"
    /\ pc' = "done"
    /\ IF NeedsPadding(padding, image_np, tile_size)
       THEN LET r == pad_to_shape(image_np, Value(tile_size))
            IN  IF r.exc = "none"
                THEN d_image' = r.val /\ raised' = "none"
                ELSE d_image' = d_image /\ raised' = r.exc
       ELSE d_image' = image_np /\ raised' = "none"
    /\ UNCHANGED <<op, padding, tile_size, image_np, filterVars, recordVars, nuclickVars>>

LoadNext == LoadImagePatchd_call

SpecLoad == LoadInit /\ [][LoadNext]_vars

\* C10: with padding enabled and a tile size requested, the loader never raises; a
\* tile smaller in either dimension is stored with exactly the requested shape, its
\* top-left region the loaded tile and every other pixel zero; a tile equal to or
\* larger than the requested size is stored unchanged.
C10_PadContract ==
    (op = "LoadImagePatchd" /\ pc = "done" /\ padding = TRUE /\ tile_size # None) =>
        /\ raised = "none"
        /\ IF image_np.h < Value(tile_size)[1] \/ image_np.w < Value(tile_size)[2]
           THEN /\ d_image.h = Value(tile_size)[1]
                /\ d_image.w = Value(tile_size)[2]
                /\ \A p \in Pos(d_image.h, d_image.w) :
                      d_image.px[p] = IF p[1] < image_np.h /\ p[2] < image_np.w
                                      THEN image_np.px[p] ELSE ZeroPixel
           ELSE d_image = image_np

(***************************************************************************)
(* Connected components (scipy.ndimage.label with the default structure:   *)
(* 4-connectivity in 2-D)                                                  *)
(***************************************************************************)
Abs(x) == IF x < 0 THEN -x ELSE x

\* The four neighbours of a position.
Nbrs(p) == {<<p[1] - 1, p[2]>>, <<p[1] + 1, p[2]>>, <<p[1], p[2] - 1>>, <<p[1], p[2] + 1>>}

\* C grown within S, F being the positions added last.
RECURSIVE Grow(_, _, _)
Grow(S, C, F) ==
    LET N == (UNION {Nbrs(p) : p \in F} \cap S) \ C
    IN  IF N = {} THEN C ELSE Grow(S, C \cup N, N)

\* The positions of S connected to a seed within S.
Reach(S, seeds) == Grow(S, seeds \cap S, seeds \cap S)

\* The connected component of p within the set S of positions.
Component(S, p) == Reach(S, {p})

\* The positions where a boolean array is True.
TruePos(a) == {p \in Pos(a.h, a.w) : a.px[p]}

BoolArray(h, w, S) == [h |-> h, w |-> w, px |-> [p \in Pos(h, w) |-> p \in S]]

\* skimage.morphology.remove_small_objects on a boolean array: label the
\* components, clear those with fewer than size pixels; size 0 returns the copy.
remove_small_objects_bool(ar, size) ==
    IF size = 0
    THEN ar
    ELSE BoolArray(ar.h, ar.w,
                   {p \in TruePos(ar) : Cardinality(Component(TruePos(ar), p)) >= size})

(***************************************************************************)
(* mask_percent, filter_green_channel, filter_remove_small_objects         *)
(***************************************************************************)
MaxFilterW == 2     \* filter inputs have 2 rows and 1..MaxFilterW columns
MaxMinSize == 5     \* starting min_size values 0..MaxMinSize

FilterShapes == {<<2, w>> : w \in 1 .. MaxFilterW}
GreenValues == {0, 100, 255}
GreenThresholds == {-5, 0, 50, 200, 250, 254, 255, 300}
OvermaskThresholds == {50, 90, 95}
StartSizes == (0 .. MaxMinSize) \cup {500}

\* Mutant of mask_percent: the percentage of non-zero pixels.
mask_percent_nonzero(a) ==
    [num |-> 100 * Cardinality(TruePos(a)), den |-> a.h * a.w]

\* mask_percent of a 2-D mask: 100 - count_nonzero / size * 100, kept as the exact
\* fraction num / den (the float result compares like the fraction for these sizes).
mask_percent(a) ==
    [num |-> 100 * (a.h * a.w) - 100 * Cardinality(TruePos(a)), den |-> a.h * a.w]

\* mask_percentage >= overmask_thresh
PercentGe(pct, thresh) == pct.num >= thresh * pct.den

\* gr_ch_mask = (g < green_thresh) & (g > 0), g the green channel
GreenMask(img, thresh) ==
    [h |-> img.h, w |-> img.w,
     px |-> [p \in Pos(img.h, img.w) |-> img.px[p] < thresh /\ img.px[p] > 0]]

\* (mask_percentage >= overmask_thresh) and (green_thresh < 255) and (avoid_overmask is True)
GreenRetry(pct, thresh, limit, avoid) ==
    PercentGe(pct, limit) /\ thresh < 255 /\ avoid = TRUE

\* math.ceil((255 - green_thresh) / 2 + green_thresh)
new_green_thresh(thresh) == (255 + thresh + 1) \div 2

\* (mask_percentage >= overmask_thresh) and (min_size >= 1) and (avoid_overmask is True)
SmallRetry(pct, size, limit, avoid) ==
    PercentGe(pct, limit) /\ size >= 1 /\ avoid = TRUE

\* Mutant of new_min_size: a half is rounded up.
new_min_size_half_up(size) == (size + 1) \div 2

\* round(min_size / 2): Python rounds a half to the even neighbour
new_min_size(size) ==
    LET k == size \div 2
    IN  IF size % 2 = 0 THEN k
        ELSE IF k % 2 = 0 THEN k ELSE k + 1

FilterInit ==
    /\ op \in {"filter_green_channel", "filter_remove_small_objects"}
    /\ pc = "call"
    /\ raised = "none"
    /\ \E s \in FilterShapes :
          img_np \in IF op = "filter_green_channel"
                     THEN Arrays(s[1], s[2], GreenValues)
                     ELSE Arrays(s[1], s[2], BOOLEAN)
    /\ green_thresh \in IF op = "filter_green_channel" THEN GreenThresholds ELSE {Idle}
    /\ min_size \in IF op = "filter_remove_small_objects" THEN StartSizes ELSE {Idle}
    /\ overmask_thresh \in OvermaskThresholds
    /\ avoid_overmask \in BOOLEAN
    /\ tolerance = Idle
    /\ depth = 0
    /\ mask = "unset"
    /\ LoadIdle /\ RecordIdle /\ NuclickIdle

\* One call level of filter_green_channel: return the mask or recurse.
filter_green_channel ==
    /\ op = "filter_green_channel"
    /\ pc = "call"
    /\ LET gr_ch_mask == GreenMask(img_np, green_thresh)
           mask_percentage == mask_percent(gr_ch_mask)
       IN  IF GreenRetry(mask_percentage, green_thresh, overmask_thresh, avoid_overmask)
           THEN /\ green_thresh' = new_green_thresh(green_thresh)
                /\ depth' = depth + 1
                /\ UNCHANGED <<pc, mask>>
           ELSE /\ mask' = gr_ch_mask
                /\ pc' = "done"
                /\ UNCHANGED <<green_thresh, depth>>
    /\ UNCHANGED <<op, raised, img_np, min_size, overmask_thresh, avoid_overmask, tolerance>>
    /\ UNCHANGED <<loadVars, recordVars, nuclickVars>>

\* One call level of filter_remove_small_objects: return the mask or recurse.
filter_remove_small_objects ==
    /\ op = "filter_remove_small_objects"
    /\ pc = "call"
    /\ LET rem_sm == remove_small_objects_bool(img_np, min_size)
           mask_percentage == mask_percent(rem_sm)
       IN  IF SmallRetry(mask_percentage, min_size, overmask_thresh, avoid_overmask)
           THEN /\ min_size' = new_min_size(min_size)
                /\ depth' = depth + 1
                /\ UNCHANGED <<pc, mask>>
           ELSE /\ mask' = rem_sm
                /\ pc' = "done"
                /\ UNCHANGED <<min_size, depth>>
    /\ UNCHANGED <<op, raised, img_np, green_thresh, overmask_thresh, avoid_overmask, tolerance>>
    /\ UNCHANGED <<loadVars, recordVars, nuclickVars>>

FilterNext == filter_green_channel \/ filter_remove_small_objects

\* The interpreter runs a call to its end: every enabled step is eventually taken.
SpecFilter == FilterInit /\ [][FilterNext]_vars /\ WF_vars(FilterNext)

\* Number of pixels filter_green_channel keeps at the current level.
KeptGreen == Cardinality({p \in Pos(img_np.h, img_np.w) :
                            0 < img_np.px[p] /\ img_np.px[p] < green_thresh})

\* Number of pixels filter_remove_small_objects keeps at the current level.
KeptSmall == Cardinality(TruePos(remove_small_objects_bool(img_np, min_size)))

FilterSize == img_np.h * img_np.w

Recursed == depth' = depth + 1

C7_RetryOnKeptFraction ==
    [][/\ (op = "filter_green_channel" /\ avoid_overmask = TRUE) =>
            (Recursed <=> (100 * KeptGreen > overmask_thresh * FilterSize
                           /\ green_thresh < 255))
       /\ (op = "filter_remove_small_objects" /\ avoid_overmask = TRUE) =>
            (Recursed <=> (100 * KeptSmall > overmask_thresh * FilterSize
                           /\ min_size >= 1))]_vars

\* C7 amended: a retry happens exactly when the percentage of pixels NOT kept is at
\* least the limit, the threshold is below 255 (resp. min_size >= 1) and
\* avoid_overmask is True.
C7_RetryOnMaskedFraction ==
    [][/\ op = "filter_green_channel" =>
            (Recursed <=> (/\ 100 * (FilterSize - KeptGreen) >= overmask_thresh * FilterSize
                           /\ green_thresh < 255
                           /\ avoid_overmask = TRUE))
       /\ op = "filter_remove_small_objects" =>
            (Recursed <=> (/\ 100 * (FilterSize - KeptSmall) >= overmask_thresh * FilterSize
                           /\ min_size >= 1
                           /\ avoid_overmask = TRUE))]_vars

\* C7 witness: filter_remove_small_objects retried although it kept less than the
\* limit, and returned once half of the pixels were kept.
C7_Witness ==
    /\ op = "filter_remove_small_objects"
    /\ pc = "done"
    /\ depth >= 1
    /\ overmask_thresh = 95
    /\ 2 * Cardinality(TruePos(mask)) = FilterSize

(***************************************************************************)
(* filter_grays on the uint8 array LoadImagePatchd produces                *)
(***************************************************************************)
MaxGrayW == 1                   \* rgb inputs have 1 row and 1..MaxGrayW columns
DefaultTolerance == 15

ChannelValues == {0, 10, 20, 25, 26, 240, 255}
RGBPixels == ChannelValues \X ChannelValues \X ChannelValues
Tolerances == {0, DefaultTolerance}

\* a - b on uint8 operands wraps modulo 256
sub_uint8(a, b) == (a - b) % 256

\* abs of a uint8 value is the value itself
abs_uint8(a) == a

\* abs(rgb[:, :, i] - rgb[:, :, j]) <= tolerance for one pixel
ChannelDiffWithin(a, b, tol) == abs_uint8(sub_uint8(a, b)) <= tol

\* ~(rg_diff & rb_diff & gb_diff)
filter_grays(rgb, tol) ==
    [h |-> rgb.h, w |-> rgb.w,
     px |-> [p \in Pos(rgb.h, rgb.w) |->
               LET rg_diff == ChannelDiffWithin(rgb.px[p][1], rgb.px[p][2], tol)
                   rb_diff == ChannelDiffWithin(rgb.px[p][1], rgb.px[p][3], tol)
                   gb_diff == ChannelDiffWithin(rgb.px[p][2], rgb.px[p][3], tol)
               IN  ~(rg_diff /\ rb_diff /\ gb_diff)]]

GraysInit ==
    /\ op = "filter_grays"
    /\ pc = "call"
    /\ raised = "none"
    /\ img_np \in UNION {Arrays(1, w, RGBPixels) : w \in 1 .. MaxGrayW}
    /\ tolerance \in Tolerances
    /\ green_thresh = Idle /\ min_size = Idle /\ overmask_thresh = Idle
    /\ avoid_overmask = Idle /\ depth = 0
    /\ mask = "unset"
    /\ LoadIdle /\ RecordIdle /\ NuclickIdle

filter_grays_call ==
    /\ op = "filter_grays"
    /\ pc = "call"
    /\ mask' = filter_grays(img_np, tolerance)
    /\ pc' = "done"
    /\ UNCHANGED <<op, raised, img_np, green_thresh, min_size, overmask_thresh,
                   avoid_overmask, tolerance, depth>>
    /\ UNCHANGED <<loadVars, recordVars, nuclickVars>>

GraysNext == filter_grays_call

SpecGrays == GraysInit /\ [][GraysNext]_vars

\* C8: filter_grays returns false for a pixel exactly when the three absolute
\* channel differences |R-G|, |R-B|, |G-B| are all within the tolerance.
C8_GrayIffAllDiffsWithin ==
    (op = "filter_grays" /\ pc = "done") =>
        \A p \in Pos(img_np.h, img_np.w) :
            LET R == img_np.px[p][1]
                G == img_np.px[p][2]
                B == img_np.px[p][3]
            IN  mask.px[p] = ~(/\ Abs(R - G) <= tolerance
                               /\ Abs(R - B) <= tolerance
                               /\ Abs(G - B) <= tolerance)

(***************************************************************************)
(* PostFilterLabeld                                                        *)
(***************************************************************************)
PostH == 3          \* label maps have PostH rows
PostW == 3          \* and PostW columns

LabelValues == {0, 1, 2}
MinSizes == {0, 2}
MinHoles == {0, 2}

\* The positions where an integer array is non-zero.
NonZeroPos(a) == {p \in Pos(a.h, a.w) : a.px[p] # 0}

\* The positions on the border of an h x w array.
Border(h, w) == {p \in Pos(h, w) : p[1] = 0 \/ p[2] = 0 \/ p[1] = h - 1 \/ p[2] = w - 1}

\* d[key].astype(np.uint8)
astype_uint8(a) == [h |-> a.h, w |-> a.w, px |-> [p \in Pos(a.h, a.w) |-> a.px[p] % 256]]

\* skimage.morphology.remove_small_holes: an integer input is cast to bool, the
\* small components of the complement are removed, the result is a boolean array.
remove_small_holes(ar, area_threshold) ==
    LET bg == Pos(ar.h, ar.w) \ NonZeroPos(ar)
        inv == remove_small_objects_bool(BoolArray(ar.h, ar.w, bg), area_threshold)
    IN  BoolArray(ar.h, ar.w, Pos(ar.h, ar.w) \ TruePos(inv))

\* scipy.ndimage.binary_fill_holes: background that is not 4-connected to the
\* border becomes foreground.  fg is the set of non-zero positions.
binary_fill_holes(h, w, fg) ==
    LET bg == Pos(h, w) \ fg
        open == Reach(bg, Border(h, w))
    IN  BoolArray(h, w, Pos(h, w) \ open)

\* bool -> uint8
bool_to_uint8(a) ==
    [h |-> a.h, w |-> a.w, px |-> [p \in Pos(a.h, a.w) |-> IF a.px[p] THEN 1 ELSE 0]]

\* skimage.morphology.remove_small_objects on an integer array: the values are
\* taken as the labels (no component labelling); every value that occurs fewer
\* than size times is cleared.
remove_small_objects_int(ar, size) ==
    IF size = 0
    THEN ar
    ELSE LET count(v) == Cardinality({q \in Pos(ar.h, ar.w) : ar.px[q] = v})
         IN  [h |-> ar.h, w |-> ar.w,
              px |-> [p \in Pos(ar.h, ar.w) |->
                        IF count(ar.px[p]) < size THEN 0 ELSE ar.px[p]]]

\* The surviving mask PostFilterLabeld.__call__ computes for one key.
PostFilterMask(orig, size, hole) ==
    LET label0 == astype_uint8(orig)
        fg1 == IF hole # 0 THEN TruePos(remove_small_holes(label0, hole))
                           ELSE NonZeroPos(label0)
        label2 == bool_to_uint8(binary_fill_holes(orig.h, orig.w, fg1))
    IN  IF size # 0 THEN remove_small_objects_int(label2, size) ELSE label2

\* np.where(label > 0, d[key], 0)
np_where(label, orig) ==
    [h |-> orig.h, w |-> orig.w,
     px |-> [p \in Pos(orig.h, orig.w) |-> IF label.px[p] > 0 THEN orig.px[p] ELSE 0]]

PostInit ==
    /\ op = "PostFilterLabeld"
    /\ pc = "call"
    /\ raised = "none"
    /\ keys = <<"label">>
    /\ data \in {[label |-> a] : a \in Arrays(PostH, PostW, LabelValues)}
    /\ min_size \in MinSizes
    /\ min_hole \in MinHoles
    /\ result = "unset"
    /\ img_np = Idle /\ green_thresh = Idle /\ overmask_thresh = Idle
    /\ avoid_overmask = Idle /\ tolerance = Idle /\ depth = Idle /\ mask = Idle
    /\ LoadIdle /\ NuclickIdle

PostFilterLabeld_call ==
    /\ op = "PostFilterLabeld"
    /\ pc = "call"
    /\ result' = Some([data EXCEPT !.label =
                     np_where(PostFilterMask(data.label, min_size, min_hole), data.label)])
    /\ pc' = "done"
    /\ UNCHANGED <<op, raised, keys, data, min_size, min_hole>>
    /\ UNCHANGED <<img_np, green_thresh, overmask_thresh, avoid_overmask, tolerance,
                   depth, mask>>
    /\ UNCHANGED <<loadVars, nuclickVars>>

PostNext == PostFilterLabeld_call

SpecPost == PostInit /\ [][PostNext]_vars

\* Background of the input label map, and its holes below min_hole: background
\* components that do not touch the border and have fewer than min_hole pixels.
PostBackground == Pos(PostH, PostW) \ NonZeroPos(data.label)

SmallHolePixels ==
    {p \in PostBackground :
        /\ Component(PostBackground, p) \cap Border(PostH, PostW) = {}
        /\ Cardinality(Component(PostBackground, p)) < min_hole}

\* C3: every pixel of an enclosed hole smaller than min_hole is non-zero in the
\* label map __call__ stores back.
C3_HolesFilled ==
    (op = "PostFilterLabeld" /\ pc = "done") =>
        \A p \in SmallHolePixels : Value(result).label.px[p] # 0

\* The hole-filled foreground mask that is handed to remove_small_objects.
FilledForeground ==
    TruePos(binary_fill_holes(PostH, PostW,
        IF min_hole # 0 THEN TruePos(remove_small_holes(astype_uint8(data.label), min_hole))
                        ELSE NonZeroPos(astype_uint8(data.label))))

\* C4: every connected component with fewer than min_size pixels is cleared in the
\* output, whatever else is in the map, and every pixel of a component that is kept
\* has its original label value.
C4_SmallComponentsRemoved ==
    (op = "PostFilterLabeld" /\ pc = "done" /\ min_size # 0) =>
        \A p \in FilledForeground :
            IF Cardinality(Component(FilledForeground, p)) < min_size
            THEN Value(result).label.px[p] = 0
            ELSE Value(result).label.px[p] = data.label.px[p]

(***************************************************************************)
(* SplitLabelExd                                                           *)
(***************************************************************************)
MaxSplitW == 2      \* split inputs have 1 row and 1..MaxSplitW columns

SplitValues == {0, 5, 7, 255}
SplitArrays == UNION {Arrays(1, w, SplitValues) : w \in 1 .. MaxSplitW}
SplitKeys == {<<"label">>, <<"label", "image">>, <<"image", "label">>}

\* NuclickKeys.OTHERS
others == "others"

\* d[k] = v on a dict
SetItem(d, k, v) == [x \in DOMAIN d \cup {k} |-> IF x = k THEN v ELSE d[x]]

SetMax(S) == CHOOSE x \in S : \A y \in S : y <= x

\* Mutant of TooManyKeys: two keys are let through.
TooManyKeys_above_two(ks) == Len(ks) > 2

\* len(self.keys) > 1
TooManyKeys(ks) == Len(ks) > 1

\* int(torch.max(torch.where(torch.logical_and(label > 0, label < 255), label, 0)))
mask_value(label) ==
    SetMax({IF label.px[p] > 0 /\ label.px[p] < 255 THEN label.px[p] ELSE 0 :
              p \in Pos(label.h, label.w)})

\* (label == v).type(torch.uint8)
EqualMask(label, v) ==
    [h |-> label.h, w |-> label.w,
     px |-> [p \in Pos(label.h, label.w) |-> IF label.px[p] = v THEN 1 ELSE 0]]

\* for key in self.keys: d[key] = ...; d[self.others] = ...
RECURSIVE SplitLoop(_, _)
SplitLoop(d, ks) ==
    IF ks = <<>>
    THEN d
    ELSE LET label == d[Head(ks)]
             d1 == SetItem(d, Head(ks), EqualMask(label, mask_value(label)))
             d2 == SetItem(d1, others, EqualMask(label, 255))
         IN  SplitLoop(d2, Tail(ks))

\* The value SplitLabelExd.__call__ returns.
SplitLabelExd(ks, rec) == IF TooManyKeys(ks) THEN None ELSE Some(SplitLoop(rec, ks))

SplitInit ==
    /\ op = "SplitLabelExd"
    /\ pc = "call"
    /\ raised = "none"
    /\ keys \in SplitKeys
    /\ data \in [{"label", "image"} -> SplitArrays]
    /\ min_hole = Idle
    /\ result = "unset"
    /\ LoadIdle /\ FilterIdle /\ NuclickIdle

SplitLabelExd_call ==
    /\ op = "SplitLabelExd"
    /\ pc = "call"
    /\ result' = SplitLabelExd(keys, data)
    /\ pc' = "done"
    /\ UNCHANGED <<op, raised, keys, data, min_hole>>
    /\ UNCHANGED <<loadVars, filterVars, nuclickVars>>

SplitNext == SplitLabelExd_call

SpecSplit == SplitInit /\ [][SplitNext]_vars

\* The label values strictly between 0 and 255.
InstanceValues(label) ==
    {label.px[p] : p \in Pos(label.h, label.w)} \ {0, 255}

\* C5: with a single key, the output under the key is 1 exactly at the pixels equal
\* to the largest value strictly between 0 and 255 (nowhere when there is none), the
\* output under 'others' is 1 exactly at the pixels equal to 255, and no pixel is 1
\* in both.
C5_SplitMasks ==
    (op = "SplitLabelExd" /\ pc = "done" /\ Len(keys) = 1) =>
        LET key == keys[1]
            label == data[key]
        IN  /\ result # None
            /\ \A p \in Pos(label.h, label.w) :
                  /\ Value(result)[key].px[p] =
                        IF /\ InstanceValues(label) # {}
                           /\ label.px[p] = SetMax(InstanceValues(label))
                        THEN 1 ELSE 0
                  /\ Value(result)[others].px[p] = IF label.px[p] = 255 THEN 1 ELSE 0
                  /\ ~(Value(result)[key].px[p] = 1 /\ Value(result)[others].px[p] = 1)

\* C9: with more than one key configured the call returns None without raising,
\* and the record passed in is left as it was.
C9_MultiKeyNoOp ==
    /\ []((op = "SplitLabelExd" /\ pc = "done" /\ Len(keys) > 1) =>
            (result = None /\ raised = "none"))
    /\ [][(op = "SplitLabelExd" /\ Len(keys) > 1) => data' = data]_vars

\* C9 witness: a call with two keys has returned None.
C9_Witness ==
    /\ op = "SplitLabelExd"
    /\ pc = "done"
    /\ Len(keys) = 2
    /\ result = None
    /\ DOMAIN data = {"label", "image"}

(***************************************************************************)
(* NuClickPostFilterLabelExd.gen_instance_map                              *)
(***************************************************************************)
MaxMasks == 2       \* at most MaxMasks objects in a call

CanvasShapes == {<<2, 2>>}
MaskShapes == {<<1, 2>>}
Offsets == (0 .. 1) \X (0 .. 1)
ClassIds == {2, 3}

\* np.argwhere(item > 0) translated: row + bb[1], column + bb[0]
this_mask_pos(item, this_bb) ==
    {<<p[1] + this_bb[2], p[2] + this_bb[1]>> : p \in NonZeroPos(item)}

\* Mutant of ClassOf: an object without a class id gets its 1-based index.
ClassOf_index_fallback(classes, i) ==
    IF classes # None /\ Value(classes) # <<>> /\ i <= Len(Value(classes))
    THEN Value(classes)[i] ELSE i

\* pred_classes[i] if pred_classes and i < len(pred_classes) else 1
\* (i is the 1-based position of the object in the list)
ClassOf(classes, i) ==
    IF classes # None /\ Value(classes) # <<>> /\ i <= Len(Value(classes))
    THEN Value(classes)[i] ELSE 1

\* c if flatten else i + 1, the value written for the object at 1-based position i
WrittenValue(classes, flat, i) == IF flat THEN ClassOf(classes, i) ELSE i

\* Mutant of Paint: a pixel that already holds a value is not overwritten.
Paint_first_write_wins(map, positions, value) ==
    [map EXCEPT !.px = [p \in Pos(map.h, map.w) |->
                          IF p \in positions /\ map.px[p] = 0 THEN value ELSE map.px[p]]]

\* The loop body: instance_map[rows, cols] = value
Paint(map, positions, value) ==
    [map EXCEPT !.px = [p \in Pos(map.h, map.w) |->
                          IF p \in positions THEN value ELSE map.px[p]]]

\* for i, item in enumerate(masks), from object i on
RECURSIVE PaintFrom(_, _, _, _, _, _)
PaintFrom(map, ms, bbs, classes, flat, i) ==
    IF i > Len(ms)
    THEN map
    ELSE PaintFrom(Paint(map, this_mask_pos(ms[i], bbs[i]), WrittenValue(classes, flat, i)),
                   ms, bbs, classes, flat, i + 1)

\* np.zeros((m, n), dtype=np.uint16)
np_zeros(m, n) == [h |-> m, w |-> n, px |-> [p \in Pos(m, n) |-> 0]]

gen_instance_map(ms, bbs, m, n, flat, classes) ==
    PaintFrom(np_zeros(m, n), ms, bbs, classes, flat, 1)

\* Objects whose foreground stays inside the canvas.
Objects(shape) ==
    {o \in [item : UNION {Arrays(s[1], s[2], {0, 1}) : s \in MaskShapes}, bb : Offsets] :
        this_mask_pos(o.item, o.bb) \subseteq Pos(shape[1], shape[2])}

\* The sequences over S of length at most k.
SeqsUpTo(S, k) == UNION {[1 .. j -> S] : j \in 0 .. k}

NuclickInit ==
    /\ op \in {"gen_instance_map", "NuClickPostFilterLabelExd"}
    /\ pc = "call"
    /\ raised = "none"
    /\ canvas \in CanvasShapes
    /\ \E objs \in SeqsUpTo(Objects(canvas), MaxMasks) :
          /\ masks = [i \in 1 .. Len(objs) |-> objs[i].item]
          /\ bounding_boxes = [i \in 1 .. Len(objs) |-> objs[i].bb]
    /\ pred_classes \in {None} \cup {Some(c) : c \in SeqsUpTo(ClassIds, Len(masks))}
    \* __call__ leaves flatten at its default
    /\ flatten \in IF op = "gen_instance_map" THEN BOOLEAN ELSE {TRUE}
    /\ instance_map = "unset"
    /\ LoadIdle /\ FilterIdle /\ RecordIdle

\* A direct call of gen_instance_map.
gen_instance_map_call ==
    /\ op = "gen_instance_map"
    /\ pc = "call"
    /\ instance_map' = gen_instance_map(masks, bounding_boxes, canvas[1], canvas[2],
                                        flatten, pred_classes)
    /\ pc' = "done"
    /\ UNCHANGED <<op, raised, masks, bounding_boxes, canvas, flatten, pred_classes>>
    /\ UNCHANGED <<loadVars, filterVars, recordVars>>

\* The call made by NuClickPostFilterLabelExd.__call__ on the masks of
\* post_processing: pred_classes from the record, flatten defaulted, cast to uint8.
NuClickPostFilterLabelExd_call ==
    /\ op = "NuClickPostFilterLabelExd"
    /\ pc = "call"
    /\ instance_map' = astype_uint8(gen_instance_map(masks, bounding_boxes, canvas[1],
                                                     canvas[2], TRUE, pred_classes))
    /\ pc' = "done"
    /\ UNCHANGED <<op, raised, masks, bounding_boxes, canvas, flatten, pred_classes>>
    /\ UNCHANGED <<loadVars, filterVars, recordVars>>

NuclickNext == gen_instance_map_call \/ NuClickPostFilterLabelExd_call

SpecNuclick == NuclickInit /\ [][NuclickNext]_vars

\* The objects whose translated foreground covers canvas position p.
Covering(p) == {i \in 1 .. Len(masks) : p \in this_mask_pos(masks[i], bounding_boxes[i])}

\* C1: every canvas pixel covered by one or more objects holds the value written
\* for the last of them in list order, every uncovered pixel holds 0, and an object
\* that overlaps no other object leaves its own value on all of its pixels.
C1_LastWriteWins ==
    (pc = "done" /\ op \in {"gen_instance_map", "NuClickPostFilterLabelExd"}) =>
        /\ \A p \in Pos(canvas[1], canvas[2]) :
              instance_map.px[p] =
                 IF Covering(p) = {} THEN 0
                 ELSE WrittenValue(pred_classes, flatten, SetMax(Covering(p)))
        /\ \A i \in 1 .. Len(masks) :
              (\A j \in (1 .. Len(masks)) \ {i} :
                  this_mask_pos(masks[i], bounding_boxes[i])
                     \cap this_mask_pos(masks[j], bounding_boxes[j]) = {}) =>
                 \A p \in this_mask_pos(masks[i], bounding_boxes[i]) :
                    instance_map.px[p] = WrittenValue(pred_classes, flatten, i)

\* C1 witness: two objects overlap on a pixel and are written with different values.
C1_Witness ==
    /\ pc = "done"
    /\ op = "gen_instance_map"
    /\ Len(masks) = 2
    /\ WrittenValue(pred_classes, flatten, 1) # WrittenValue(pred_classes, flatten, 2)
    /\ \E p \in Pos(canvas[1], canvas[2]) : Covering(p) = {1, 2}
    /\ \E p \in Pos(canvas[1], canvas[2]) : Covering(p) = {1}

\* C2 as stated: the value of object i is its class id when class ids are supplied
\* and flattening is requested, and its 1-based index otherwise.
C2_ClassIdOrIndex ==
    (pc = "done" /\ op \in {"gen_instance_map", "NuClickPostFilterLabelExd"}) =>
        \A p \in Pos(canvas[1], canvas[2]) :
            Covering(p) # {} =>
                LET i == SetMax(Covering(p))
                IN  instance_map.px[p] =
                       IF flatten /\ pred_classes # None /\ i <= Len(Value(pred_classes))
                       THEN Value(pred_classes)[i] ELSE i

\* C2 amended: with flatten false the value is the 1-based index; with flatten true
\* it is the class id when pred_classes has an entry for the object and the
\* constant 1 otherwise (pred_classes absent, empty or too short).
C2_ClassIdOrOneOrIndex ==
    (pc = "done" /\ op \in {"gen_instance_map", "NuClickPostFilterLabelExd"}) =>
        \A p \in Pos(canvas[1], canvas[2]) :
            Covering(p) # {} =>
                LET i == SetMax(Covering(p))
                IN  instance_map.px[p] =
                       IF ~flatten THEN i
                       ELSE IF pred_classes # None /\ i <= Len(Value(pred_classes))
                            THEN Value(pred_classes)[i] ELSE 1

\* C2 witness: __call__ ran with class ids for the first object only, and the second
\* object left the constant 1 on the canvas.
C2_Witness ==
    /\ pc = "done"
    /\ op = "NuClickPostFilterLabelExd"
    /\ Len(masks) = 2
    /\ pred_classes # None
    /\ Len(Value(pred_classes)) = 1
    /\ \E p \in Pos(canvas[1], canvas[2]) :
          SetMax(Covering(p) \cup {0}) = 2 /\ instance_map.px[p] = 1
    /\ \E p \in Pos(canvas[1], canvas[2]) :
          SetMax(Covering(p) \cup {0}) = 1 /\ instance_map.px[p] = Value(pred_classes)[1]

====
